---------------------------- MODULE Spec2Model ----------------------------
(***************************************************************************)
(* Model of the storefront's in-memory catalog (src/src/data/store.ts) and *)
(* of the cookie-held cart of the Express server (server.ts).              *)
(*                                                                         *)
(* Text is a sequence of one-character strings, so that slugify can be     *)
(* computed character by character as the regular expressions do.  A Map   *)
(* is the sequence of its [key, value] entries in insertion order: Map.set *)
(* on an existing key keeps the position, Map.set on a new key appends,    *)
(* and Map.delete removes the entry.                                       *)
(***************************************************************************)
EXTENDS Integers, Sequences, FiniteSets, TLC

(***************************************************************************)
(* Bounds of the model.                                                    *)
(***************************************************************************)
\* randomUUID is called at most MaxId times; the k-th call returns id k.
MaxId == 2

\* The JSON arrays of a cart cookie have at most MaxItems elements.
MaxItems == 2

\* The strings given to slugify have at most MaxLen characters.
MaxLen == 3

\* The largest quantity that a request to POST /cart/add writes in digits
\* of its own; the one longer numeral of the model is beyond every number.
MaxQuantity == 3

\* A browser session makes at most MaxAdds accepted requests to POST
\* /cart/add.
MaxAdds == 3

Ids == 1..MaxId

\* An optional id that is undefined (Category.parentId?: string).
NoId == 0

(***************************************************************************)
(* Text and the Slug Generator.                                            *)
(***************************************************************************)
EmptyStr == <<>>

LowerOf ==
  [c \in {"A", "B", "C", "X", "Y"} |->
     CASE c = "A" -> "a" [] c = "B" -> "b" [] c = "C" -> "c"
       [] c = "X" -> "x" [] c = "Y" -> "y"]

\* String.prototype.toLowerCase, one character.
toLowerChar(c) == IF c \in DOMAIN LowerOf THEN LowerOf[c] ELSE c

toLowerCase(s) == [i \in 1..Len(s) |-> toLowerChar(s[i])]

\* The character class [a-z0-9].
IsSlugChar(c) == c \in {"a", "b", "c", "x", "y", "0", "1", "2"}

\* .replace(/[^a-z0-9]+/g, '-'): every maximal run of characters outside
\* [a-z0-9] becomes one hyphen.
RECURSIVE replaceRuns(_)
replaceRuns(s) ==
  IF s = <<>> THEN <<>>
  ELSE IF IsSlugChar(Head(s)) THEN <<Head(s)>> \o replaceRuns(Tail(s))
  ELSE IF Len(s) > 1 /\ ~IsSlugChar(s[2]) THEN replaceRuns(Tail(s))
  ELSE <<"-">> \o replaceRuns(Tail(s))

\* No hyphen is stripped.
keepEdgeHyphens(s) == s

\* .replace(/(^-|-$)+/g, ''): ^- matches only a hyphen at index 0 and -$ only
\* a hyphen at the last index, so one hyphen goes at each end.
stripEdgeHyphens(s) ==
  LET a == IF Len(s) > 0 /\ s[1] = "-" THEN Tail(s) ELSE s
  IN  IF Len(a) > 0 /\ a[Len(a)] = "-" THEN SubSeq(a, 1, Len(a) - 1) ELSE a

slugify(value) == stripEdgeHyphens(replaceRuns(toLowerCase(value)))

(***************************************************************************)
(* Objects.  An object is a function from its keys to their values; a      *)
(* Partial<T> is such a function on a subset of T's keys.                  *)
(***************************************************************************)
\* The object without keys: the empty partial {}.
EmptyObject == <<>>

\* { ...base, ...update }
\* A spread that takes nothing from the second object.
SpreadNothing(base, update) == base

Spread(base, update) ==
  [k \in DOMAIN base \cup DOMAIN update |->
     IF k \in DOMAIN update THEN update[k] ELSE base[k]]

\* Truthiness of obj.key for a string-valued key: an omitted key reads as
\* undefined and the empty string is falsy.
TruthyKey(obj, key) == key \in DOMAIN obj /\ obj[key] # EmptyStr

(***************************************************************************)
(* Map<string, T>, as the sequence of its [key, value] entries in          *)
(* insertion order.                                                        *)
(***************************************************************************)
MapKeys(map) == {map[i].key : i \in 1..Len(map)}

MapHas(map, key) == key \in MapKeys(map)

\* Map.get(key) of a key the map has.
MapGet(map, key) == map[CHOOSE i \in 1..Len(map) : map[i].key = key].value

\* Map.set(key, value): an existing key keeps its position.
\* A set that always adds an entry.
MapSetAppend(map, key, value) == Append(map, [key |-> key, value |-> value])

MapSet(map, key, value) ==
  IF MapHas(map, key)
  THEN [i \in 1..Len(map) |->
          IF map[i].key = key THEN [key |-> key, value |-> value] ELSE map[i]]
  ELSE Append(map, [key |-> key, value |-> value])

\* Map.delete(key)
MapDelete(map, key) == SelectSeq(map, LAMBDA e : e.key # key)

\* Array.from(map.values())
MapValues(map) == [i \in 1..Len(map) |-> map[i].value]

\* A filter that drops nothing.
FilterOutNothing(array, id) == array

\* array.filter((x) => x !== id)
FilterOut(array, id) == SelectSeq(array, LAMBDA x : x # id)

(***************************************************************************)
(* The DataStore.                                                          *)
(***************************************************************************)
VARIABLES
  products,    \* DataStore.products: Map<string, Product>
  categories,  \* DataStore.categories: Map<string, Category>
  pages,       \* DataStore.pages: Map<string, CustomPage>
  settings,    \* DataStore.settings: SiteSettings
  uuids,       \* the number of ids randomUUID has returned
  lastOp,      \* the last call: its name, its id, its object argument
  ret,         \* what the last call returned: <<>> for undefined, else <<value>>
  removedCategories  \* history: the ids removeCategory was called with

storeVars == <<products, categories, pages, settings>>

\* The return value undefined, and a returned value.
ReturnedUndefined == <<>>
Returned(value) == <<value>>

\* The record of a call: its name, the id it was given or assigned, and its
\* object argument.
Call(op, id, arg) == [op |-> op, id |-> id, arg |-> arg]

DefaultSettings ==
  [headerHtml |-> "<h1 class=\"site-title\">My Storefront</h1>",
   footerHtml |-> "<p>(c) My Storefront</p>",
   paymentGateways |-> <<[provider |-> "stripe", enabled |-> FALSE]>>]

StoreInit ==
  /\ products = <<>>
  /\ categories = <<>>
  /\ pages = <<>>
  /\ settings = DefaultSettings
  /\ uuids = 0
  /\ lastOp = Call("new", NoId, EmptyObject)
  /\ ret = ReturnedUndefined
  /\ removedCategories = {}

\* randomUUID(): a value no earlier call returned.
randomUUID == uuids + 1

(***************************************************************************)
(* Inputs of the store's operations.  A caller can name an id that some    *)
(* earlier call returned (the entity may be gone since), or an id that was *)
(* never returned and so is the key of nothing.                            *)
(***************************************************************************)
Names == {<<>>, <<"A", " ", "b">>}

SlugInputs == {<<>>, <<"X", " ", "y">>}

Prices == {10}

Contents == {<<"p">>}

\* The ids randomUUID has returned so far.
IssuedIds == 1..uuids

\* categoryIds as a caller supplies them: they are not checked against the
\* categories.  No id or one id; or up to two distinct ids.
CategoryIdChoices == {<<>>} \cup {<<c>> : c \in IssuedIds}

CategoryIdLists ==
  CategoryIdChoices \cup {l \in IssuedIds \X IssuedIds : l[1] # l[2]}

ParentIds == {NoId} \cup IssuedIds

\* A key an object may omit: no key, or the key with one of the values.
Optional(key, values) == {EmptyObject} \cup {[k \in {key} |-> v] : v \in values}

\* productInput: Omit<Product, 'id' | 'slug'> & { slug?: string }
ProductInputs ==
  {[name |-> n, price |-> p, categoryIds |-> c] @@ s :
     n \in Names, p \in Prices, c \in CategoryIdChoices,
     s \in Optional("slug", SlugInputs)}

\* update: Partial<Omit<Product, 'id'>>: the name and the slug in every
\* combination, or the categoryIds.
ProductUpdates ==
  {n @@ s : n \in Optional("name", Names), s \in Optional("slug", SlugInputs)}
    \cup {[categoryIds |-> c] : c \in CategoryIdChoices}

\* The arguments of createCategory(name, description?, parentId?).
CategoryInputs == {[name |-> n, parentId |-> q] : n \in Names, q \in ParentIds}

\* update: Partial<Omit<Category, 'id'>>
CategoryUpdates ==
  {n @@ s : n \in Optional("name", Names), s \in Optional("slug", SlugInputs)}
    \cup {[parentId |-> q] : q \in ParentIds}

\* pageInput: Omit<CustomPage, 'id' | 'slug'> & { slug?: string }
PageInputs ==
  {[title |-> t, content |-> c] @@ s :
     t \in Names, c \in Contents, s \in Optional("slug", SlugInputs)}

\* update: Partial<Omit<CustomPage, 'id'>>
PageUpdates ==
  {t @@ s : t \in Optional("title", Names), s \in Optional("slug", SlugInputs)}
    \cup {[content |-> c] : c \in Contents}

\* The calls that exercise the category cascade: one name, every list of
\* categoryIds.
CascadeName == <<"A", " ", "b">>

CascadeCategoryInputs ==
  {[name |-> CascadeName, parentId |-> q] : q \in ParentIds}

CascadeCategoryUpdates == {EmptyObject} \cup {[parentId |-> q] : q \in ParentIds}

CascadeProductInputs ==
  {[name |-> CascadeName, price |-> p, categoryIds |-> c] :
     p \in Prices, c \in CategoryIdLists}

CascadeProductUpdates ==
  {EmptyObject} \cup {[categoryIds |-> c] : c \in CategoryIdLists}

(***************************************************************************)
(* Categories.                                                             *)
(***************************************************************************)
\* The Category object createCategory builds.
newCategory(id, input) ==
  [id |-> id, name |-> input.name, parentId |-> input.parentId,
   slug |-> slugify(input.name)]

createCategory(input) ==
  LET id == randomUUID
      category == newCategory(id, input)
  IN  /\ uuids < MaxId
      /\ uuids' = id
      /\ categories' = MapSet(categories, id, category)
      /\ ret' = Returned(category)
      /\ lastOp' = Call("createCategory", id, input)
      /\ UNCHANGED <<products, pages, settings>>

\* The Category object updateCategory stores.
updatedCategory(category, update) ==
  LET updated == Spread(category, update)
  IN  IF TruthyKey(update, "name")
      THEN [updated EXCEPT !.slug = slugify(update.name)]
      ELSE updated

updateCategory(id, update) ==
  /\ lastOp' = Call("updateCategory", id, update)
  /\ IF ~MapHas(categories, id)
     THEN /\ ret' = ReturnedUndefined
          /\ UNCHANGED categories
     ELSE LET updated == updatedCategory(MapGet(categories, id), update)
          IN  /\ categories' = MapSet(categories, id, updated)
              /\ ret' = Returned(updated)
  /\ UNCHANGED <<products, pages, settings, uuids>>

\* A cascade that deletes the products of the removed category.
forEachProductDeleting(map, i, id) ==
  SelectSeq(map, LAMBDA entry :
                   \A k \in 1..Len(entry.value.categoryIds) :
                     entry.value.categoryIds[k] # id)

\* products.forEach of removeCategory, entries i..Len(map): the product is
\* changed in place and then set again under its own id.
RECURSIVE forEachProduct(_, _, _)
forEachProduct(map, i, id) ==
  IF i > Len(map) THEN map
  ELSE LET product ==
             [map[i].value EXCEPT !.categoryIds = FilterOut(@, id)]
           inPlace == [map EXCEPT ![i].value = product]
       IN  forEachProduct(MapSet(inPlace, product.id, product), i + 1, id)

removeCategory(id) ==
  /\ categories' = MapDelete(categories, id)
  /\ products' = forEachProduct(products, 1, id)
  /\ ret' = ReturnedUndefined
  /\ lastOp' = Call("removeCategory", id, EmptyObject)
  /\ UNCHANGED <<pages, settings, uuids>>

(***************************************************************************)
(* Products.                                                               *)
(***************************************************************************)
\* A product whose slug always derives from its name.
newProductFromName(id, productInput) ==
  Spread(productInput, [id |-> id, slug |-> slugify(productInput.name)])

\* The Product object createProduct builds.
newProduct(id, productInput) ==
  LET slug == IF TruthyKey(productInput, "slug")
              THEN slugify(productInput.slug)
              ELSE slugify(productInput.name)
  IN  Spread(productInput, [id |-> id, slug |-> slug])

createProduct(productInput) ==
  LET id == randomUUID
      product == newProduct(id, productInput)
  IN  /\ uuids < MaxId
      /\ uuids' = id
      /\ products' = MapSet(products, id, product)
      /\ ret' = Returned(product)
      /\ lastOp' = Call("createProduct", id, productInput)
      /\ UNCHANGED <<categories, pages, settings>>

\* A merge that always derives the slug again from the merged name.
updatedEntityReslug(entity, update, nameKey) ==
  LET updated == Spread(entity, update)
  IN  [updated EXCEPT !.slug = slugify(updated[nameKey])]

\* The object updateProduct and updatePage store; nameKey is the key the
\* slug derives from ("name" of a Product, "title" of a CustomPage).
updatedEntity(entity, update, nameKey) ==
  LET updated == Spread(entity, update)
      renamed == IF TruthyKey(update, nameKey) /\ ~TruthyKey(update, "slug")
                 THEN [updated EXCEPT !.slug = slugify(update[nameKey])]
                 ELSE updated
  IN  IF TruthyKey(update, "slug")
      THEN [renamed EXCEPT !.slug = slugify(update.slug)]
      ELSE renamed

updatedProduct(product, update) == updatedEntity(product, update, "name")

\* An update that inserts the partial under an unknown id.
updateProductUpsert(id, update) ==
  /\ lastOp' = Call("updateProduct", id, update)
  /\ LET updated == IF MapHas(products, id)
                    THEN updatedProduct(MapGet(products, id), update)
                    ELSE update
     IN  /\ products' = MapSet(products, id, updated)
         /\ ret' = Returned(updated)
  /\ UNCHANGED <<categories, pages, settings, uuids>>

updateProduct(id, update) ==
  /\ lastOp' = Call("updateProduct", id, update)
  /\ IF ~MapHas(products, id)
     THEN /\ ret' = ReturnedUndefined
          /\ UNCHANGED products
     ELSE LET updated == updatedProduct(MapGet(products, id), update)
          IN  /\ products' = MapSet(products, id, updated)
              /\ ret' = Returned(updated)
  /\ UNCHANGED <<categories, pages, settings, uuids>>

removeProduct(id) ==
  /\ products' = MapDelete(products, id)
  /\ ret' = ReturnedUndefined
  /\ lastOp' = Call("removeProduct", id, EmptyObject)
  /\ UNCHANGED <<categories, pages, settings, uuids>>

(***************************************************************************)
(* Pages.                                                                  *)
(***************************************************************************)
\* The CustomPage object createPage builds.
newPage(id, pageInput) ==
  LET slug == IF TruthyKey(pageInput, "slug")
              THEN slugify(pageInput.slug)
              ELSE slugify(pageInput.title)
  IN  Spread(pageInput, [id |-> id, slug |-> slug])

createPage(pageInput) ==
  LET id == randomUUID
      page == newPage(id, pageInput)
  IN  /\ uuids < MaxId
      /\ uuids' = id
      /\ pages' = MapSet(pages, id, page)
      /\ ret' = Returned(page)
      /\ lastOp' = Call("createPage", id, pageInput)
      /\ UNCHANGED <<products, categories, settings>>

updatedPage(page, update) == updatedEntity(page, update, "title")

updatePage(id, update) ==
  /\ lastOp' = Call("updatePage", id, update)
  /\ IF ~MapHas(pages, id)
     THEN /\ ret' = ReturnedUndefined
          /\ UNCHANGED pages
     ELSE LET updated == updatedPage(MapGet(pages, id), update)
          IN  /\ pages' = MapSet(pages, id, updated)
              /\ ret' = Returned(updated)
  /\ UNCHANGED <<products, categories, settings, uuids>>

removePage(id) ==
  /\ pages' = MapDelete(pages, id)
  /\ ret' = ReturnedUndefined
  /\ lastOp' = Call("removePage", id, EmptyObject)
  /\ UNCHANGED <<products, categories, settings, uuids>>

\* listProducts(), getProduct(id), listPages(): reads of the store.
listProducts == MapValues(products)
listPages == MapValues(pages)
getProduct(id) == IF MapHas(products, id) THEN <<MapGet(products, id)>> ELSE <<>>
getCategory(id) ==
  IF MapHas(categories, id) THEN <<MapGet(categories, id)>> ELSE <<>>

\* array.find((page) => page.slug === slug)
\* A scan that returns the last match.
findLastBySlug(array, slug) ==
  LET matches == {i \in 1..Len(array) : array[i].slug = slug}
  IN  IF matches = {} THEN ReturnedUndefined
      ELSE Returned(array[CHOOSE i \in matches : \A j \in matches : j <= i])

findBySlug(array, slug) ==
  LET matches == {i \in 1..Len(array) : array[i].slug = slug}
  IN  IF matches = {} THEN ReturnedUndefined
      ELSE Returned(array[CHOOSE i \in matches : \A j \in matches : i <= j])

\* getPageBySlug(slug)
getPageBySlug(slug) ==
  /\ ret' = findBySlug(MapValues(pages), slug)
  /\ lastOp' = Call("getPageBySlug", NoId, [slug |-> slug])
  /\ UNCHANGED <<products, categories, pages, settings, uuids>>

(***************************************************************************)
(* The site settings.                                                      *)
(***************************************************************************)
\* settings: Partial<SiteSettings>
HeaderHtmls == {"", "<h1>Shop</h1>"}
FooterHtmls == {"", "<p>Shop</p>"}
GatewayLists ==
  {<<>>,
   <<[provider |-> "paypal", enabled |-> TRUE]>>,
   <<[provider |-> "stripe", enabled |-> TRUE],
     [provider |-> "paypal", enabled |-> FALSE]>>}

SettingsUpdates ==
  {h @@ f @@ g :
     h \in Optional("headerHtml", HeaderHtmls),
     f \in Optional("footerHtml", FooterHtmls),
     g \in Optional("paymentGateways", GatewayLists)}

\* { ...this.settings, ...settings }
\* A merge that adds the supplied gateways to the configured ones.
mergedGateways(current, update) ==
  [k \in DOMAIN current \cup DOMAIN update |->
     IF k \notin DOMAIN update THEN current[k]
     ELSE IF k = "paymentGateways" THEN current[k] \o update[k]
     ELSE update[k]]

updatedSettings(current, update) == Spread(current, update)

\* getSettings()
getSettings ==
  /\ ret' = Returned(settings)
  /\ lastOp' = Call("getSettings", NoId, EmptyObject)
  /\ UNCHANGED <<products, categories, pages, settings, uuids>>

\* updateSettings(settings)
updateSettings(update) ==
  /\ settings' = updatedSettings(settings, update)
  /\ ret' = Returned(settings')
  /\ lastOp' = Call("updateSettings", NoId, update)
  /\ UNCHANGED <<products, categories, pages, uuids>>

(***************************************************************************)
(* JavaScript values of the cart cookie.  A value is a record tagged with  *)
(* its type; a finite number is counted in halves, so that 2.5 is a value. *)
(***************************************************************************)
Undefined == [t |-> "undefined"]
Null == [t |-> "null"]
Bool(b) == [t |-> "boolean", b |-> b]
Halves(h) == [t |-> "number", twice |-> h]
Num(k) == Halves(2 * k)
NaN == [t |-> "NaN"]
Infinity == [t |-> "Infinity"]
NegInfinity == [t |-> "-Infinity"]
Str(text) == [t |-> "string", s |-> text]
\* The string that randomUUID returned as id.
Uuid(id) == [t |-> "uuid", id |-> id]
Arr(elements) == [t |-> "array", a |-> elements]
Obj(fields) == [t |-> "object", o |-> fields]

\* typeof value === 'string'
IsString(value) == value.t \in {"string", "uuid"}

\* Array.isArray(value)
IsArray(value) == value.t = "array"

\* The truthiness of a string: only '' is falsy.
TruthyString(value) == value.t = "uuid" \/ value.s # EmptyStr

\* value[key]: a property of an object, undefined on an object without it
\* and on a number, a string, a boolean or an array; null has no properties
\* and the access throws a TypeError.
ThrowsOnAccess(value) == value.t = "null"

GetProp(value, key) ==
  IF value.t = "object" /\ key \in DOMAIN value.o THEN value.o[key]
  ELSE Undefined

Digits == <<"0", "1", "2", "3", "4", "5", "6", "7", "8", "9">>

DigitValue(c) == (CHOOSE i \in 1..Len(Digits) : Digits[i] = c) - 1

IsDigit(c) == \E i \in 1..Len(Digits) : Digits[i] = c

RECURSIVE decimal(_)
decimal(s) ==
  IF s = <<>> THEN 0
  ELSE 10 * decimal(SubSeq(s, 1, Len(s) - 1)) + DigitValue(s[Len(s)])

\* Number(string), for the strings of letters and digits: '' is 0, a string
\* of digits is its decimal value, any other string is NaN.
StringToNumber(s) ==
  IF s = EmptyStr THEN Num(0)
  ELSE IF \A i \in 1..Len(s) : IsDigit(s[i]) THEN Num(decimal(s))
  ELSE NaN

\* Number(value), for a value that is no array and no object.
Number(value) ==
  CASE value.t = "undefined" -> NaN
    [] value.t = "null" -> Num(0)
    [] value.t = "boolean" -> IF value.b THEN Num(1) ELSE Num(0)
    [] value.t = "number" -> value
    [] value.t = "NaN" -> NaN
    [] value.t = "string" -> StringToNumber(value.s)
    [] value.t = "uuid" -> NaN

\* Number.isFinite(number)
IsFinite(number) == number.t = "number"

\* number > 0
IsPositive(number) ==
  number.t = "Infinity" \/ (number.t = "number" /\ number.twice > 0)

\* a + b, for numbers that are not NaN and not infinities of opposite sign.
Plus(a, b) ==
  IF a.t = "number" /\ b.t = "number" THEN Halves(a.twice + b.twice)
  ELSE IF a.t = "number" THEN b
  ELSE a

\* A decimal numeral of more digits than this exceeds Number.MAX_VALUE
\* (about 1.8e308), and its number value is Infinity.
MaxFiniteDigits == 309

\* The longest prefix of s made of digits.
digitPrefix(s) ==
  LET others == {i \in 1..Len(s) : ~IsDigit(s[i])}
  IN  IF others = {} THEN s
      ELSE SubSeq(s, 1, (CHOOSE i \in others : \A j \in others : i <= j) - 1)

\* Number.parseInt(string, 10), for a string without leading white space:
\* an optional '-', then the longest prefix of digits; NaN without a digit.
parseInt(string) ==
  LET negative == string # <<>> /\ Head(string) = "-"
      digits == digitPrefix(IF negative THEN Tail(string) ELSE string)
  IN  IF digits = <<>> THEN NaN
      ELSE IF Len(digits) > MaxFiniteDigits
           THEN IF negative THEN NegInfinity ELSE Infinity
      ELSE Num(IF negative THEN 0 - decimal(digits) ELSE decimal(digits))

\* String(value) as parseInt reads it: a string is itself, the string of
\* an object is '[object Object]', of which only the '[' matters here.
ToStringForParse(value) ==
  IF value.t = "string" THEN value.s ELSE <<"[">>

\* number || 1: 0 and NaN are falsy.
OrOne(number) ==
  IF number.t = "NaN" \/ (number.t = "number" /\ number.twice = 0)
  THEN Num(1) ELSE number

\* Math.max(1, number), for a number that is not NaN.
MaxWithOne(number) ==
  IF number.t = "Infinity" THEN Infinity
  ELSE IF number.t = "-Infinity" THEN Num(1)
  ELSE IF number.twice > 2 THEN number ELSE Num(1)

(***************************************************************************)
(* Completions: a call returns a value or throws.                          *)
(***************************************************************************)
Throw == [threw |-> TRUE]
Normal(value) == [threw |-> FALSE, value |-> value]

\* try { completion } catch { handler }
Catch(completion, handler) == IF completion.threw THEN handler ELSE completion

(***************************************************************************)
(* The Cookie header and the texts a cookie can hold.  The header is the   *)
(* sequence of its cookies, split at ';' and trimmed; a cookie's value is  *)
(* percent-encoded text, malformed or encoding a text, and a text is the   *)
(* empty string, a JSON text, or a string that is no JSON text.            *)
(***************************************************************************)
CART_COOKIE_NAME == "cart"

EmptyText == [kind |-> "empty"]
NotJson == [kind |-> "garbage"]
JsonText(value) == [kind |-> "json", value |-> value]

Malformed == [malformed |-> TRUE]
Encoded(text) == [malformed |-> FALSE, text |-> text]

Cookie(name, value) == [name |-> name, value |-> value]

\* decodeURIComponent: a URIError on a malformed escape sequence.
decodeURIComponent(encoded) ==
  IF encoded.malformed THEN Throw ELSE Normal(encoded.text)

\* JSON.parse: a SyntaxError on a text that is no JSON text.
JSONparse(text) ==
  IF text.kind = "json" THEN Normal(text.value) ELSE Throw

\* getCookieValue(req, name): <<>> for undefined, <<text>> for a string.
getCookieValue(request, name) ==
  IF "cookie" \notin DOMAIN request.headers \/ request.headers.cookie = <<>>
  THEN ReturnedUndefined
  ELSE LET cookies == request.headers.cookie
           matches == SelectSeq(cookies, LAMBDA cookie : cookie.name = name)
       IN  IF matches = <<>> THEN ReturnedUndefined
           ELSE LET decoded == decodeURIComponent(matches[1].value)
                    returned == IF decoded.threw THEN Throw
                                ELSE Normal(Returned(decoded.value))
                IN  Catch(returned, Normal(ReturnedUndefined)).value

(***************************************************************************)
(* The cart of a request.                                                  *)
(***************************************************************************)
VARIABLES
  req,        \* the request being handled: headers, and __cartItems once set
  locals,     \* res.locals of the response
  phase,      \* "idle", "received" (before the middleware), "parsed",
              \* "answered" (a cart route has run)
  uncaught,   \* an exception escaped a handler
  res,        \* the response of a cart route: cookie, render, redirect
  decoded,    \* the array parseCartItems returned to POST /cart/add, as it
              \* is once the route has run
  jar,        \* the cart cookie that the browser of a session holds: <<>>
              \* for none, <<value>> for the value of the last Set-Cookie
  accepted    \* history: the product and the normalized quantity of each
              \* add of a session that was accepted

cartVars == <<req, locals, phase, uncaught, res, decoded, jar, accepted>>

CartInit ==
  /\ req = EmptyObject
  /\ locals = EmptyObject
  /\ phase = "idle"
  /\ uncaught = FALSE
  /\ res = EmptyObject
  /\ decoded = <<>>
  /\ jar = <<>>
  /\ accepted = <<>>

\* The CartItem that the map of parseCartItems makes of an element.
mapItem(item) ==
  LET productId == GetProp(item, "productId")
      quantity == Number(GetProp(item, "quantity"))
  IN  [productId |-> IF IsString(productId) THEN productId ELSE Str(EmptyStr),
       quantity |-> IF IsFinite(quantity) THEN quantity ELSE Num(0)]

\* parsed.map(...): throws when the access to a property of an element does.
mapItems(elements) ==
  IF \E i \in 1..Len(elements) : ThrowsOnAccess(elements[i]) THEN Throw
  ELSE Normal([i \in 1..Len(elements) |-> mapItem(elements[i])])

\* .filter((item) => item.productId && item.quantity > 0)
filterItems(items) ==
  SelectSeq(items,
            LAMBDA item : TruthyString(item.productId) /\ item.quantity.twice > 0)

\* The try block of parseCartItems on the text of the cookie.
parseRaw(raw) ==
  LET parsed == JSONparse(raw)
  IN  IF parsed.threw THEN Throw
      ELSE IF ~IsArray(parsed.value) THEN Normal(<<>>)
      ELSE LET mapped == mapItems(parsed.value.a)
           IN  IF mapped.threw THEN Throw
               ELSE Normal(filterItems(mapped.value))

\* A parse without the catch of the try block.
parseCartItemsUnguarded(request) ==
  IF "__cartItems" \in DOMAIN request THEN Normal(request["__cartItems"])
  ELSE LET raw == getCookieValue(request, CART_COOKIE_NAME)
       IN  IF raw = ReturnedUndefined \/ raw[1].kind = "empty"
           THEN Normal(<<>>)
           ELSE parseRaw(raw[1])

\* A parse that resolves the items against the products of the store and
\* drops the ones of no product.
parseCartItemsResolved(request) ==
  IF "__cartItems" \in DOMAIN request THEN Normal(request["__cartItems"])
  ELSE LET raw == getCookieValue(request, CART_COOKIE_NAME)
       IN  IF raw = ReturnedUndefined \/ raw[1].kind = "empty"
           THEN Normal(<<>>)
           ELSE LET parsed == Catch(parseRaw(raw[1]), Normal(<<>>))
                IN  Normal(SelectSeq(parsed.value,
                                     LAMBDA item :
                                       /\ item.productId.t = "uuid"
                                       /\ MapHas(products, item.productId.id)))

\* parseCartItems(req): the completion of the call; its value is what the
\* call returns and leaves in req.__cartItems.
parseCartItems(request) ==
  IF "__cartItems" \in DOMAIN request THEN Normal(request["__cartItems"])
  ELSE LET raw == getCookieValue(request, CART_COOKIE_NAME)
       IN  IF raw = ReturnedUndefined \/ raw[1].kind = "empty"
           THEN Normal(<<>>)
           ELSE Catch(parseRaw(raw[1]), Normal(<<>>))

\* cartItems.reduce((total, item) => total + item.quantity, 0)
RECURSIVE sumQuantities(_)
sumQuantities(items) ==
  IF items = <<>> THEN 0
  ELSE items[1].quantity.twice + sumQuantities(Tail(items))

\* The elements of the JSON arrays of the model.
ProductIdValues ==
  {Str(EmptyStr), Num(7)} \cup {Uuid(id) : id \in Ids}

QuantityValues ==
  {Num(2), Num(0), Num(-1), Halves(5), Str(<<"3">>), Str(<<"a">>), Null,
   Bool(TRUE)}

ElementObjects ==
  {Obj(p @@ q) : p \in Optional("productId", ProductIdValues),
                 q \in Optional("quantity", QuantityValues)}

Scalars == {Null, Num(1), Str(<<"a">>), Bool(TRUE)}

Elements == Scalars \cup {Arr(<<>>)} \cup ElementObjects

RECURSIVE ArraysOf(_, _)
ArraysOf(elements, n) ==
  IF n = 0 THEN {<<>>}
  ELSE LET shorter == ArraysOf(elements, n - 1)
       IN  shorter \cup {Append(a, e) : a \in {b \in shorter : Len(b) = n - 1},
                                        e \in elements}

JsonValues ==
  {Null, Num(1), Str(<<"a">>), Bool(TRUE), Obj(EmptyObject),
   Obj([productId |-> Uuid(1), quantity |-> Num(2)])}
    \cup {Arr(a) : a \in ArraysOf(Elements, MaxItems)}

CookieValues ==
  {Malformed, Encoded(EmptyText), Encoded(NotJson)}
    \cup {Encoded(JsonText(value)) : value \in JsonValues}

OtherCookie == Cookie("sid", Encoded(NotJson))

\* The headers of a request: no Cookie header, an empty one, one without
\* a cart cookie, one with a cart cookie, alone or after another cookie or
\* before a second cart cookie.
RequestHeaders ==
  {EmptyObject, [cookie |-> <<>>], [cookie |-> <<OtherCookie>>]}
    \cup {[cookie |-> <<Cookie(CART_COOKIE_NAME, value)>>] :
            value \in CookieValues}
    \cup {[cookie |-> <<OtherCookie, Cookie(CART_COOKIE_NAME, value),
                        Cookie(CART_COOKIE_NAME, Encoded(NotJson))>>] :
            value \in {Malformed, Encoded(EmptyText),
                       Encoded(JsonText(Arr(<<>>))),
                       Encoded(JsonText(Arr(<<Obj([productId |-> Uuid(1),
                                                   quantity |-> Num(2)])>>)))}}

\* A request arrives with its headers.
Receive(headers) ==
  /\ phase = "idle"
  /\ req' = [headers |-> headers]
  /\ phase' = "received"
  /\ UNCHANGED <<locals, uncaught, res, decoded>>

\* app.use((req, res, next) => ...): the middleware that every request
\* passes first.
CartMiddleware ==
  /\ phase = "received"
  /\ LET cartItems == parseCartItems(req)
     IN  IF cartItems.threw
         THEN /\ uncaught' = TRUE
              /\ UNCHANGED <<req, locals>>
         ELSE /\ req' = ("__cartItems" :> cartItems.value) @@ req
              /\ locals' = [cartItemCount |-> Halves(sumQuantities(cartItems.value))]
              /\ UNCHANGED uncaught
  /\ phase' = "parsed"
  /\ UNCHANGED <<res, decoded>>

\* The response is sent and the request is over.
Respond ==
  /\ phase \in {"parsed", "answered"}
  /\ req' = EmptyObject
  /\ locals' = EmptyObject
  /\ res' = EmptyObject
  /\ decoded' = <<>>
  /\ phase' = "idle"
  /\ UNCHANGED uncaught

(***************************************************************************)
(* The cart routes: GET /cart and POST /cart/add.                          *)
(***************************************************************************)
\* JSON.stringify of a number: null for a number that is not finite.
stringifyNumber(number) == IF IsFinite(number) THEN number ELSE Null

\* JSON.stringify(items), items an array of CartItems.
JSONstringify(items) ==
  JsonText(Arr([i \in 1..Len(items) |->
                  Obj([productId |-> items[i].productId,
                       quantity |-> stringifyNumber(items[i].quantity)])]))

\* The percent-encoding res.cookie applies to the value (encodeURIComponent).
encodeURIComponent(text) == Encoded(text)

\* writeCartItems(res, items): the value of the cart cookie it sets.
writeCartItems(items) ==
  LET sanitized == SelectSeq(items, LAMBDA item : IsPositive(item.quantity))
  IN  encodeURIComponent(JSONstringify(sanitized))

\* A lookup that makes up a product for a string that is no key.
getProductOrMadeUp(value) ==
  IF value.t = "uuid" /\ MapHas(products, value.id) THEN getProduct(value.id)
  ELSE <<[id |-> NoId, name |-> EmptyStr, slug |-> EmptyStr, price |-> 0,
          categoryIds |-> <<>>]>>

\* store.getProduct(id) for a string: only the string of an id can be a key.
getProductByString(value) ==
  IF value.t = "uuid" THEN getProduct(value.id) ELSE ReturnedUndefined

\* The lines GET /cart maps the cart items to: undefined is filtered out.
cartLines(cartItems) ==
  LET resolved == SelectSeq(cartItems,
                    LAMBDA item : getProductByString(item.productId) # <<>>)
  IN  [i \in 1..Len(resolved) |->
         LET product == getProductByString(resolved[i].productId)[1]
         IN  [product |-> product,
              quantity |-> resolved[i].quantity,
              lineTotal |-> Halves(product.price * resolved[i].quantity.twice)]]

\* A total that counts only the first line.
sumFirstLine(lines) == IF lines = <<>> THEN 0 ELSE lines[1].lineTotal.twice

\* items.reduce((sum, item) => sum + item.lineTotal, 0)
RECURSIVE sumLineTotals(_)
sumLineTotals(lines) ==
  IF lines = <<>> THEN 0
  ELSE lines[1].lineTotal.twice + sumLineTotals(Tail(lines))

OnRoute(route) ==
  /\ phase = "parsed"
  /\ "route" \in DOMAIN req
  /\ req.route = route

\* app.get('/cart', ...)
GetCart ==
  /\ OnRoute("GET /cart")
  /\ LET cartItems == parseCartItems(req).value
         items == cartLines(cartItems)
         total == Halves(sumLineTotals(items))
     IN  res' = [render |-> [items |-> items, total |-> total,
                             settings |-> settings]]
  /\ phase' = "answered"
  /\ UNCHANGED <<req, locals, uncaught, decoded>>

\* Array.isArray(value) ? value[0] : value, on a field of the body.
FirstOf(body, key) ==
  LET value == IF key \in DOMAIN body THEN body[key] ELSE Undefined
  IN  IF IsArray(value)
      THEN IF value.a = <<>> THEN Undefined ELSE value.a[1]
      ELSE value

\* Math.max(1, Number.parseInt(quantityRaw ?? '1', 10) || 1)
normalizedQuantity(quantityRaw) ==
  LET string == IF quantityRaw.t \in {"undefined", "null"} THEN <<"1">>
                ELSE ToStringForParse(quantityRaw)
  IN  MaxWithOne(OrOne(parseInt(string)))

\* A handler never finds anything in the list.
findNothing(heap, items, productId) == 0

\* items.find((item) => item.productId === product.id): the position of the
\* first such item in items, 0 for undefined.  The items of an array are
\* references to the item objects, which are in heap.
findExisting(heap, items, productId) ==
  LET found == {i \in 1..Len(items) : heap[items[i]].productId = productId}
  IN  IF found = {} THEN 0
      ELSE CHOOSE i \in found : \A j \in found : i <= j

\* The body of POST /cart/add from the copy of the array to the push:
\* the item objects and the new array.  The copy [...array] holds the same
\* references as the array that parseCartItems returned, which is 1..n over
\* the heap of its n objects.
addToCart(array, productId, quantity) ==
  LET heap == array
      items == [i \in 1..Len(array) |-> i]
      existingItem == findExisting(heap, items, productId)
  IN  IF existingItem # 0
      THEN [heap |-> [heap EXCEPT ![items[existingItem]].quantity =
                                     Plus(@, quantity)],
            items |-> items]
      ELSE [heap |-> Append(heap, [productId |-> productId,
                                   quantity |-> quantity]),
            items |-> Append(items, Len(heap) + 1)]

\* The objects that the references of an array point to.
Deref(heap, items) == [i \in 1..Len(items) |-> heap[items[i]]]

\* app.post('/cart/add', ...)
PostCartAdd ==
  /\ OnRoute("POST /cart/add")
  /\ LET array == parseCartItems(req).value
         productIdRaw == FirstOf(req.body, "productId")
         quantityRaw == FirstOf(req.body, "quantity")
         product == IF IsString(productIdRaw)
                    THEN getProductByString(productIdRaw)
                    ELSE ReturnedUndefined
     IN  IF product = ReturnedUndefined
         THEN /\ res' = [redirect |-> <<"/">>]
              /\ decoded' = array
              /\ UNCHANGED req
         ELSE LET quantity == normalizedQuantity(quantityRaw)
                  added == addToCart(array, Uuid(product[1].id), quantity)
                  items == Deref(added.heap, added.items)
              IN  /\ req' = [req EXCEPT !["__cartItems"] = items]
                  /\ res' = [cookie |-> writeCartItems(items),
                             redirect |-> <<"/", "products", "/">>
                                            \o product[1].slug]
                  /\ decoded' = SubSeq(added.heap, 1, Len(array))
  /\ phase' = "answered"
  /\ UNCHANGED <<locals, uncaught>>

\* The carts and the bodies of the requests to the cart routes.
ShopQuantities == {Num(2), Halves(5)}

ShopElements ==
  {Obj([productId |-> Uuid(id), quantity |-> q]) :
     id \in Ids, q \in ShopQuantities}

ShopHeaders ==
  {EmptyObject}
    \cup {[cookie |->
             <<Cookie(CART_COOKIE_NAME, Encoded(JsonText(Arr(a))))>>] :
            a \in ArraysOf(ShopElements, MaxItems)}

HugeDigits == [i \in 1..(MaxFiniteDigits + 1) |-> "9"]

ProductIdRaws ==
  {Uuid(id) : id \in Ids}
    \cup {Str(<<"x">>), Obj(EmptyObject), Arr(<<Uuid(1)>>)}

QuantityRaws ==
  {Str(<<Digits[MaxQuantity + 1]>>), Str(<<"0">>), Str(<<"-", "5">>), Str(<<"a">>),
   Str(HugeDigits), Arr(<<Str(<<"2">>)>>)}

AddBodies ==
  {p @@ q : p \in Optional("productId", ProductIdRaws),
            q \in Optional("quantity", QuantityRaws)}

ShopRequests ==
  {[route |-> "GET /cart", body |-> EmptyObject]}
    \cup {[route |-> "POST /cart/add", body |-> body] : body \in AddBodies}

\* A request to a cart route arrives.
ReceiveRoute(headers, request) ==
  /\ phase = "idle"
  /\ req' = [headers |-> headers, route |-> request.route,
             body |-> request.body]
  /\ phase' = "received"
  /\ UNCHANGED <<locals, uncaught, res, decoded>>

ShopPrices == {10, 3}

ShopProductInputs ==
  {[name |-> CascadeName, price |-> price, categoryIds |-> <<>>] :
     price \in ShopPrices}

(***************************************************************************)
(* The catalog: every sequence of calls of the store's create, update and  *)
(* remove operations.  Each call runs to completion: the store's methods   *)
(* are synchronous, so one call is one step.                               *)
(***************************************************************************)
vars ==
  <<products, categories, pages, settings, uuids, lastOp, ret,
    removedCategories, req, locals, phase, uncaught, res, decoded, jar,
    accepted>>

Init == StoreInit /\ CartInit

\* A store call in a specification that keeps no history of removals.
StoreCall(call) == call /\ UNCHANGED <<removedCategories, cartVars>>

Next ==
  \/ \E input \in CategoryInputs : StoreCall(createCategory(input))
  \/ \E id \in Ids, update \in CategoryUpdates :
       StoreCall(updateCategory(id, update))
  \/ \E id \in Ids : StoreCall(removeCategory(id))
  \/ \E productInput \in ProductInputs : StoreCall(createProduct(productInput))
  \/ \E id \in Ids, update \in ProductUpdates :
       StoreCall(updateProduct(id, update))
  \/ \E id \in Ids : StoreCall(removeProduct(id))
  \/ \E pageInput \in PageInputs : StoreCall(createPage(pageInput))
  \/ \E id \in Ids, update \in PageUpdates : StoreCall(updatePage(id, update))
  \/ \E id \in Ids : StoreCall(removePage(id))

Spec == Init /\ [][Next]_vars

(***************************************************************************)
(* Categories and products alone, with the history of the removals.        *)
(***************************************************************************)
removeCategoryRecorded(id) ==
  /\ removeCategory(id)
  /\ removedCategories' = removedCategories \cup {id}
  /\ UNCHANGED cartVars

NextCascade ==
  \/ \E input \in CascadeCategoryInputs : StoreCall(createCategory(input))
  \/ \E id \in Ids, update \in CascadeCategoryUpdates :
       StoreCall(updateCategory(id, update))
  \/ \E id \in Ids : removeCategoryRecorded(id)
  \/ \E productInput \in CascadeProductInputs :
       StoreCall(createProduct(productInput))
  \/ \E id \in Ids, update \in CascadeProductUpdates :
       StoreCall(updateProduct(id, update))
  \/ \E id \in Ids : StoreCall(removeProduct(id))

SpecCascade == Init /\ [][NextCascade]_vars

(***************************************************************************)
(* The Slug Generator alone: slugify is given a string and returns.        *)
(***************************************************************************)
SlugAlphabet == {"A", "b", "1", " ", "-"}

RECURSIVE TextsOf(_, _)
TextsOf(alphabet, n) ==
  IF n = 0 THEN {<<>>}
  ELSE LET shorter == TextsOf(alphabet, n - 1)
       IN  shorter \cup {Append(t, c) : t \in {u \in shorter : Len(u) = n - 1},
                                        c \in alphabet}

SlugTexts == TextsOf(SlugAlphabet, MaxLen)

\* slugify is called with a string.
InitSlug ==
  /\ products = <<>>
  /\ categories = <<>>
  /\ pages = <<>>
  /\ settings = DefaultSettings
  /\ uuids = 0
  /\ lastOp \in {Call("slugify", NoId, value) : value \in SlugTexts}
  /\ ret = ReturnedUndefined
  /\ removedCategories = {}
  /\ CartInit

NextSlug ==
  /\ lastOp.op = "slugify"
  /\ ret = ReturnedUndefined
  /\ ret' = Returned(slugify(lastOp.arg))
  /\ UNCHANGED <<products, categories, pages, settings, uuids, lastOp,
                 removedCategories, cartVars>>

SpecSlug == InitSlug /\ [][NextSlug]_vars

(***************************************************************************)
(* The requests: one request at a time, each passing the cart middleware.  *)
(***************************************************************************)
catalogVars ==
  <<products, categories, pages, settings, uuids, lastOp, ret,
    removedCategories>>

\* The browser and the history of a session.
sessionVars == <<jar, accepted>>

\* A step of a request whose browser is not modelled.
RequestStep(step) == step /\ UNCHANGED <<catalogVars, sessionVars>>

NextCart ==
  \/ \E headers \in RequestHeaders : RequestStep(Receive(headers))
  \/ RequestStep(CartMiddleware)
  \/ RequestStep(Respond)

SpecCart == Init /\ [][NextCart]_vars

(***************************************************************************)
(* The shop: products are created and removed between the requests, and    *)
(* the requests go to the cart routes.                                     *)
(***************************************************************************)
\* A store call of an admin route, which runs between two other requests.
AdminCall(call) == phase = "idle" /\ StoreCall(call)

NextShop ==
  \/ \E productInput \in ShopProductInputs :
       AdminCall(createProduct(productInput))
  \/ \E id \in Ids : AdminCall(removeProduct(id))
  \/ \E headers \in ShopHeaders, request \in ShopRequests :
       RequestStep(ReceiveRoute(headers, request))
  \/ RequestStep(CartMiddleware)
  \/ RequestStep(GetCart)
  \/ RequestStep(PostCartAdd)
  \/ RequestStep(Respond)

SpecShop == Init /\ [][NextShop]_vars

(***************************************************************************)
(* The session: one browser, which starts without a cart cookie, sends     *)
(* each request with the cart cookie of the last response that set one,    *)
(* and keeps the cookie that a response sets.  Products are created        *)
(* between the requests.                                                   *)
(***************************************************************************)
\* The Cookie header of the browser.
JarHeaders ==
  IF jar = <<>> THEN EmptyObject
  ELSE [cookie |-> <<Cookie(CART_COOKIE_NAME, jar[1])>>]

\* The browser sends a request to a cart route.
BrowserSends(request) ==
  /\ Len(accepted) < MaxAdds
  /\ ReceiveRoute(JarHeaders, request)
  /\ UNCHANGED <<catalogVars, sessionVars>>

\* POST /cart/add, and the record of the add when the route accepts it,
\* which is when it writes the cart.
PostCartAddRecorded ==
  /\ PostCartAdd
  /\ accepted' =
       IF "cookie" \in DOMAIN res'
       THEN Append(accepted,
                   [productId |-> FirstOf(req.body, "productId"),
                    quantity |->
                      normalizedQuantity(FirstOf(req.body, "quantity"))])
       ELSE accepted
  /\ UNCHANGED <<catalogVars, jar>>

\* The response is sent: the browser keeps the cookie it sets.
BrowserReceives ==
  /\ Respond
  /\ jar' = IF "cookie" \in DOMAIN res THEN <<res.cookie>> ELSE jar
  /\ UNCHANGED <<catalogVars, accepted>>

NextSession ==
  \/ \E productInput \in ShopProductInputs :
       AdminCall(createProduct(productInput))
  \/ \E request \in ShopRequests : BrowserSends(request)
  \/ RequestStep(CartMiddleware)
  \/ RequestStep(GetCart)
  \/ PostCartAddRecorded
  \/ BrowserReceives

SpecSession == Init /\ [][NextSession]_vars

(***************************************************************************)
(* The settings: the site settings are read and updated while products     *)
(* are created.                                                            *)
(***************************************************************************)
NextSettings ==
  \/ \E update \in SettingsUpdates : StoreCall(updateSettings(update))
  \/ StoreCall(getSettings)
  \/ \E productInput \in ShopProductInputs :
       StoreCall(createProduct(productInput))

SpecSettings == Init /\ [][NextSettings]_vars

(***************************************************************************)
(* The removal of a category from a catalog whose products list three      *)
(* category ids each: categories, products and pages are created, and      *)
(* categories are removed.                                                 *)
(***************************************************************************)
\* An id that a caller names and randomUUID never returned.
ForeignId == MaxId + 1

CategoryIdValues == Ids \cup {ForeignId}

\* categoryIds: string[], of no id or of three ids, repeated or not.
CategoryIdTriples ==
  {<<>>} \cup (CategoryIdValues \X CategoryIdValues \X CategoryIdValues)

RemovalProductInputs ==
  {[name |-> CascadeName, price |-> price, categoryIds |-> categoryIds] :
     price \in Prices, categoryIds \in CategoryIdTriples}

RemovalPageInputs ==
  {[title |-> CascadeName, content |-> content] : content \in Contents}

NextRemoval ==
  \/ \E input \in CascadeCategoryInputs : StoreCall(createCategory(input))
  \/ \E productInput \in RemovalProductInputs :
       StoreCall(createProduct(productInput))
  \/ \E pageInput \in RemovalPageInputs : StoreCall(createPage(pageInput))
  \/ \E id \in Ids : StoreCall(removeCategory(id))

SpecRemoval == Init /\ [][NextRemoval]_vars

(***************************************************************************)
(* The pages: pages are created, updated, removed and looked up by slug.   *)
(***************************************************************************)
\* The slugs a page is looked up by: the slugs a page can have, and the
\* strings that are the slug of no page.
LookupSlugs == {slugify(text) : text \in Names \cup SlugInputs} \cup SlugInputs

NextPages ==
  \/ \E pageInput \in PageInputs : StoreCall(createPage(pageInput))
  \/ \E id \in Ids, update \in PageUpdates : StoreCall(updatePage(id, update))
  \/ \E id \in Ids : StoreCall(removePage(id))
  \/ \E slug \in LookupSlugs : StoreCall(getPageBySlug(slug))

SpecPages == Init /\ [][NextPages]_vars

(***************************************************************************)
(* Properties of the catalog.                                              *)
(***************************************************************************)
Range(seq) == {seq[i] : i \in 1..Len(seq)}

\* Some stored product has category id c in its categoryIds.
SomeProductLists(c) ==
  \E product \in Range(listProducts) : c \in Range(product.categoryIds)

\* The last call was op on an id that is a key of map.
LastOn(op, map) == lastOp.op = op /\ MapHas(map, lastOp.id)

\* C1: right after removeCategory(c) returns, the category is gone and no
\* product that listProducts or getProduct returns has c in its categoryIds.
\* The removal and the cleanup are one step of the model, as they are one
\* synchronous call of the code.
C1_RemovedCategoryLeavesProducts ==
  lastOp.op = "removeCategory" =>
    /\ getCategory(lastOp.id) = <<>>
    /\ ~SomeProductLists(lastOp.id)
    /\ \A id \in Ids :
         getProduct(id) # <<>> =>
           lastOp.id \notin Range(getProduct(id)[1].categoryIds)

\* A removeCategory(c) has returned while a product that lists another
\* category is stored, and c is the id of a category that was created.
C1_Witness ==
  /\ lastOp.op = "removeCategory"
  /\ lastOp.id \in IssuedIds
  /\ lastOp.id \notin MapKeys(products)
  /\ \E product \in Range(listProducts) : product.categoryIds # <<>>

\* C2: once removeCategory(c) has been called, no stored product has c in
\* its categoryIds, in any later state.
C2_RemovedCategoryNeverListed ==
  \A c \in removedCategories : ~SomeProductLists(c)

\* The slug a create is to assign: slugify of the override when a non-empty
\* override was supplied, slugify of the name or title otherwise.
AssignedSlug(input, nameKey) ==
  IF "slug" \in DOMAIN input /\ input.slug # EmptyStr
  THEN slugify(input.slug)
  ELSE slugify(input[nameKey])

\* id is the key of exactly one entity of the store, the latest id assigned.
FreshlyAssigned(id) ==
  /\ id = uuids
  /\ Cardinality({i \in 1..Len(products) : products[i].key = id})
       + Cardinality({i \in 1..Len(categories) : categories[i].key = id})
       + Cardinality({i \in 1..Len(pages) : pages[i].key = id}) = 1

\* C3: after createProduct, createCategory or createPage, reading the entity
\* back by the returned id (a page through listPages) yields the input's
\* fields, the freshly assigned id, and the slug: slugify(override) for a
\* non-empty override, slugify(name or title) otherwise.
C3_CreateThenGet ==
  /\ lastOp.op = "createProduct" =>
       LET input == lastOp.arg
           expected ==
             [id |-> ret[1].id, name |-> input.name, price |-> input.price,
              categoryIds |-> input.categoryIds,
              slug |-> AssignedSlug(input, "name")]
       IN  /\ getProduct(ret[1].id) = <<expected>>
           /\ FreshlyAssigned(ret[1].id)
  /\ lastOp.op = "createCategory" =>
       LET input == lastOp.arg
           expected ==
             [id |-> ret[1].id, name |-> input.name,
              parentId |-> input.parentId, slug |-> slugify(input.name)]
       IN  /\ getCategory(ret[1].id) = <<expected>>
           /\ FreshlyAssigned(ret[1].id)
  /\ lastOp.op = "createPage" =>
       LET input == lastOp.arg
           expected ==
             [id |-> ret[1].id, title |-> input.title,
              content |-> input.content,
              slug |-> AssignedSlug(input, "title")]
       IN  /\ {page \in Range(listPages) : page.id = ret[1].id} = {expected}
           /\ FreshlyAssigned(ret[1].id)

\* A product was created with a slug override that differs from its name's
\* slug, and is read back.
C3_Witness ==
  /\ lastOp.op = "createProduct"
  /\ "slug" \in DOMAIN lastOp.arg
  /\ getProduct(ret[1].id) # <<>>
  /\ getProduct(ret[1].id)[1].slug = slugify(<<"X", " ", "y">>)
  /\ getProduct(ret[1].id)[1].name = <<"A", " ", "b">>
  /\ Len(products) > 1

\* C4: an update of an existing Product, Category or Page whose partial
\* supplies a slug stores slugify(supplied slug), whether or not the partial
\* also has a name or title.
C4_ExplicitSlugWins ==
  /\ LastOn("updateProduct", products) /\ "slug" \in DOMAIN lastOp.arg =>
       MapGet(products, lastOp.id).slug = slugify(lastOp.arg.slug)
  /\ LastOn("updateCategory", categories) /\ "slug" \in DOMAIN lastOp.arg =>
       MapGet(categories, lastOp.id).slug = slugify(lastOp.arg.slug)
  /\ LastOn("updatePage", pages) /\ "slug" \in DOMAIN lastOp.arg =>
       MapGet(pages, lastOp.id).slug = slugify(lastOp.arg.slug)

\* The last call was the update op of an entity of map, with a partial that
\* changes the entity's nameKey and has no slug.
Renames(op, map, nameKey) ==
  /\ lastOp'.op = op
  /\ MapHas(map, lastOp'.id)
  /\ nameKey \in DOMAIN lastOp'.arg
  /\ "slug" \notin DOMAIN lastOp'.arg
  /\ lastOp'.arg[nameKey] # MapGet(map, lastOp'.id)[nameKey]

\* C5: an update of an existing Product, Category or Page whose partial
\* changes the name (the title of a Page) to any string and has no slug stores
\* slugify(new name).
C5_RenameRecomputesSlug ==
  [][/\ Renames("updateProduct", products, "name") =>
          MapGet(products', lastOp'.id).slug = slugify(lastOp'.arg.name)
     /\ Renames("updateCategory", categories, "name") =>
          MapGet(categories', lastOp'.id).slug = slugify(lastOp'.arg.name)
     /\ Renames("updatePage", pages, "title") =>
          MapGet(pages', lastOp'.id).slug = slugify(lastOp'.arg.title)]_vars

\* C6: removeProduct, removePage and removeCategory of an id that is no key
\* of its repository leave the whole store as it was.
C6_RemoveUnknownIsNoOp ==
  [][/\ lastOp'.op = "removeProduct" /\ ~MapHas(products, lastOp'.id) =>
          UNCHANGED storeVars
     /\ lastOp'.op = "removePage" /\ ~MapHas(pages, lastOp'.id) =>
          UNCHANGED storeVars
     /\ lastOp'.op = "removeCategory" /\ ~MapHas(categories, lastOp'.id) =>
          UNCHANGED storeVars]_vars

\* C7: updateProduct, updateCategory and updatePage of an id that is no key
\* of the repository return undefined, insert nothing and leave the
\* repositories and the settings as they were.
C7_UpdateUnknownReturnsAbsent ==
  [][/\ lastOp'.op = "updateProduct" /\ ~MapHas(products, lastOp'.id) =>
          ret' = ReturnedUndefined /\ UNCHANGED storeVars
     /\ lastOp'.op = "updateCategory" /\ ~MapHas(categories, lastOp'.id) =>
          ret' = ReturnedUndefined /\ UNCHANGED storeVars
     /\ lastOp'.op = "updatePage" /\ ~MapHas(pages, lastOp'.id) =>
          ret' = ReturnedUndefined /\ UNCHANGED storeVars]_vars

\* An update with a non-empty partial named an id that is no key of a
\* repository that holds another entity, and returned undefined.
C7_Witness ==
  /\ lastOp.op = "updateProduct"
  /\ DOMAIN lastOp.arg # {}
  /\ ~MapHas(products, lastOp.id)
  /\ Len(products) > 0
  /\ ret = ReturnedUndefined

\* C8: an update of an existing Product, Category or Page with the empty
\* partial changes no field of the entity, id and slug included, and no
\* other entity.
C8_EmptyUpdateIsNoOp ==
  [][/\ lastOp'.op = "updateProduct" /\ MapHas(products, lastOp'.id)
          /\ DOMAIN lastOp'.arg = {} =>
            /\ UNCHANGED storeVars
            /\ ret' = Returned(MapGet(products, lastOp'.id))
     /\ lastOp'.op = "updateCategory" /\ MapHas(categories, lastOp'.id)
          /\ DOMAIN lastOp'.arg = {} =>
            /\ UNCHANGED storeVars
            /\ ret' = Returned(MapGet(categories, lastOp'.id))
     /\ lastOp'.op = "updatePage" /\ MapHas(pages, lastOp'.id)
          /\ DOMAIN lastOp'.arg = {} =>
            /\ UNCHANGED storeVars
            /\ ret' = Returned(MapGet(pages, lastOp'.id))]_vars

\* An empty update of a product whose slug is not the slug of its name has
\* returned the product.
C8_Witness ==
  /\ LastOn("updateProduct", products)
  /\ DOMAIN lastOp.arg = {}
  /\ ret = Returned(MapGet(products, lastOp.id))
  /\ ret[1].slug # slugify(ret[1].name)

(***************************************************************************)
(* Properties of the cart.                                                 *)
(***************************************************************************)
HasCartCookie(request) ==
  /\ "cookie" \in DOMAIN request.headers
  /\ \E i \in 1..Len(request.headers.cookie) :
       request.headers.cookie[i].name = CART_COOKIE_NAME

\* The value of the first cart cookie of the request.
CartCookie(request) ==
  LET cookies == request.headers.cookie
      first == CHOOSE i \in 1..Len(cookies) :
                 /\ cookies[i].name = CART_COOKIE_NAME
                 /\ \A j \in 1..(i - 1) : cookies[j].name # CART_COOKIE_NAME
  IN  cookies[first].value

\* The cart cookie of the request holds a JSON array.
HoldsArray(request) ==
  /\ HasCartCookie(request)
  /\ ~CartCookie(request).malformed
  /\ CartCookie(request).text.kind = "json"
  /\ CartCookie(request).text.value.t = "array"

CookieArray(request) == CartCookie(request).text.value.a

IsScalar(value) == value.t \in {"null", "boolean", "number", "string"}

\* The request has no cart cookie, or one that cannot be decoded, is empty,
\* is no JSON text, is JSON but no array, or is an array of scalars.
UndecodableCart(request) ==
  \/ ~HasCartCookie(request)
  \/ CartCookie(request).malformed
  \/ CartCookie(request).text.kind \in {"empty", "garbage"}
  \/ CartCookie(request).text.value.t # "array"
  \/ \A i \in 1..Len(CookieArray(request)) : IsScalar(CookieArray(request)[i])

\* C9: parseCartItems never throws to its caller, and for a request without
\* a cart cookie or with one whose value is empty, is no valid JSON, is JSON
\* but no array, or is an array of scalars, it returns the empty cart.
C9_DecodeIsFailSoft ==
  /\ ~uncaught
  /\ phase = "parsed" /\ UndecodableCart(req) =>
       /\ "__cartItems" \in DOMAIN req
       /\ Len(req["__cartItems"]) = 0
       /\ locals.cartItemCount = Num(0)

\* The middleware has decoded a cart cookie that holds a non-empty array of
\* numbers to the empty cart.
C9_Witness ==
  /\ phase = "parsed"
  /\ HoldsArray(req)
  /\ Len(CookieArray(req)) > 0
  /\ \A i \in 1..Len(CookieArray(req)) : CookieArray(req)[i].t = "number"
  /\ "__cartItems" \in DOMAIN req
  /\ Len(req["__cartItems"]) = 0

\* An element whose productId is a non-empty string and whose quantity
\* coerces to a finite number greater than 0.
ValidElement(element) ==
  /\ element.t = "object"
  /\ "productId" \in DOMAIN element.o
  /\ element.o.productId.t \in {"string", "uuid"}
  /\ element.o.productId # Str(EmptyStr)
  /\ "quantity" \in DOMAIN element.o
  /\ Number(element.o.quantity).t = "number"
  /\ Number(element.o.quantity).twice > 0

\* The valid elements of the array, in their order, as cart items.
ValidItems(array) ==
  LET valid == SelectSeq(array, ValidElement)
  IN  [i \in 1..Len(valid) |->
         [productId |-> valid[i].o.productId,
          quantity |-> Number(valid[i].o.quantity)]]

\* C10: for a cart cookie that holds a JSON array, the decoded cart is
\* exactly the array's valid elements in their order; an invalid element,
\* null or a scalar included, is dropped alone.
C10_DecodeDropsOnlyInvalid ==
  phase = "parsed" /\ HoldsArray(req) =>
    /\ "__cartItems" \in DOMAIN req
    /\ req["__cartItems"] = ValidItems(CookieArray(req))

(***************************************************************************)
(* Properties of the cart routes.                                          *)
(***************************************************************************)
\* The cart the middleware decodes from a request whose only cookie is the
\* cart cookie with this value.
DecodedFrom(value) ==
  parseCartItems([headers |-> [cookie |-> <<Cookie(CART_COOKIE_NAME, value)>>]]).value

\* POST /cart/add has written the cart cookie.
CookieWritten == phase = "answered" /\ "cookie" \in DOMAIN res

\* C11: decoding the cookie value that writeCartItems(items) wrote yields
\* exactly the {productId, quantity} pairs of the items whose quantity is
\* greater than 0, as a set.
C11_RoundTrip ==
  CookieWritten =>
    Range(DecodedFrom(res.cookie)) =
      {item \in Range(req["__cartItems"]) : IsPositive(item.quantity)}

\* This step is POST /cart/add for a product that the store holds.
AddsProduct ==
  /\ OnRoute("POST /cart/add")
  /\ phase' = "answered"
  /\ "cookie" \in DOMAIN res'

\* The productId and the quantity of the request being handled.
RequestedProduct == FirstOf(req.body, "productId")
RequestedQuantity == normalizedQuantity(FirstOf(req.body, "quantity"))

\* C12: adding a stored product p with normalized quantity q to a cart that
\* has an entry for p adds q to that entry's quantity and appends nothing;
\* to a cart without one it appends exactly {productId: p, quantity: q};
\* all other entries keep their quantity and their order.
C12_AddMergesOrAppends ==
  [][AddsProduct =>
       LET old == req["__cartItems"]
           new == req'["__cartItems"]
           p == RequestedProduct
           q == RequestedQuantity
       IN  IF \E i \in 1..Len(old) : old[i].productId = p
           THEN \E i \in 1..Len(old) :
                  /\ old[i].productId = p
                  /\ new = [old EXCEPT ![i].quantity = Plus(@, q)]
           ELSE new = Append(old, [productId |-> p, quantity |-> q])]_vars

\* An add has merged into a cart of two entries: the cart is as long as the
\* decoded one and holds more than was decoded.
C12_Witness ==
  /\ CookieWritten
  /\ Len(decoded) = 2
  /\ Len(req["__cartItems"]) = 2
  /\ req["__cartItems"][1].productId # req["__cartItems"][2].productId
  /\ IsFinite(req["__cartItems"][1].quantity)
  /\ IsFinite(req["__cartItems"][2].quantity)
  /\ locals.cartItemCount.twice
       < req["__cartItems"][1].quantity.twice
           + req["__cartItems"][2].quantity.twice

\* The cart that adding quantity q of product p makes of the cart old.
AddedTo(old, p, q) ==
  LET entries == {i \in 1..Len(old) : old[i].productId = p}
  IN  IF entries = {} THEN Append(old, [productId |-> p, quantity |-> q])
      ELSE [old EXCEPT ![CHOOSE i \in entries : \A j \in entries : i <= j]
                          .quantity = Plus(@, q)]

\* The requested quantity is missing, not numeric, zero or negative.
RequestsNoQuantity ==
  LET raw == FirstOf(req.body, "quantity")
  IN  \/ raw.t # "string"
      \/ raw.s = EmptyStr
      \/ ~IsDigit(raw.s[1])
      \/ \A i \in 1..Len(raw.s) : raw.s[i] = "0"

\* C13: the quantity an add-to-cart request applies is an integer >= 1,
\* and it is 1 when the requested quantity is missing, not numeric, zero or
\* negative; no entry's quantity gets lower and none is <= 0.
C13_AppliedQuantityIsPositiveInteger ==
  [][AddsProduct =>
       LET old == req["__cartItems"]
           new == req'["__cartItems"]
       IN  /\ \E n \in 1..MaxQuantity :
                /\ new = AddedTo(old, RequestedProduct, Num(n))
                /\ RequestsNoQuantity => n = 1
           /\ \A i \in 1..Len(new) : IsPositive(new[i].quantity)]_vars

\* This step is POST /cart/add.
HandlesAdd == OnRoute("POST /cart/add") /\ phase' = "answered"

\* The requested productId is no string, or no key of the products.
RequestsNoProduct ==
  \/ RequestedProduct.t # "uuid"
  \/ \A i \in 1..Len(products) : products[i].key # RequestedProduct.id

\* C14: an add-to-cart request whose productId is no string or resolves to
\* no stored product leaves the cart as it was: no cookie is written, the
\* request's decoded cart keeps its items, and no error is raised.
C14_RejectedAddChangesNothing ==
  [][HandlesAdd /\ RequestsNoProduct =>
       /\ "cookie" \notin DOMAIN res'
       /\ req' = req
       /\ decoded' = req["__cartItems"]
       /\ ~uncaught'
       /\ UNCHANGED catalogVars]_vars

\* An add for the id of a product that the store does not hold was rejected
\* with a cart of two entries.
C14_Witness ==
  /\ phase = "answered"
  /\ req.route = "POST /cart/add"
  /\ RequestedProduct.t = "uuid"
  /\ \A i \in 1..Len(products) : products[i].key # RequestedProduct.id
  /\ Len(products) > 0
  /\ "cookie" \notin DOMAIN res
  /\ Len(req["__cartItems"]) = 2

\* C15: POST /cart/add does not change the array that parseCartItems
\* returned to it, nor any of its items: after the add they have the
\* productIds and the quantities they had before, whether the add merged
\* or appended.
C15_AddKeepsDecodedArray ==
  [][HandlesAdd => decoded' = req["__cartItems"]]_vars

\* A cart item resolves to a stored product.
Resolves(item) ==
  /\ item.productId.t = "uuid"
  /\ \E i \in 1..Len(products) : products[i].key = item.productId.id

RECURSIVE SumOf(_)
SumOf(numbers) ==
  IF numbers = <<>> THEN 0 ELSE numbers[1].twice + SumOf(Tail(numbers))

\* GET /cart has rendered the cart.
Rendered == phase = "answered" /\ "render" \in DOMAIN res

\* C16: GET /cart renders one line for each cart item whose productId
\* resolves to a stored product, in the cart's order, with the product, the
\* quantity and lineTotal = price * quantity, and total is the sum of the
\* line totals; items whose product is not stored give no line and no error.
C16_CartIsPriced ==
  /\ ~uncaught
  /\ Rendered =>
       LET priced == SelectSeq(req["__cartItems"], Resolves)
           lines == res.render.items
       IN  /\ Len(lines) = Len(priced)
           /\ \A k \in 1..Len(priced) :
                /\ getProduct(priced[k].productId.id) = <<lines[k].product>>
                /\ lines[k].quantity = priced[k].quantity
                /\ lines[k].lineTotal.twice =
                     lines[k].product.price * priced[k].quantity.twice
           /\ res.render.total.twice =
                SumOf([k \in 1..Len(lines) |-> lines[k].lineTotal])
           /\ priced = <<>> => res.render.total = Num(0)

\* GET /cart has priced a cart of two items of which one is of a product
\* that was removed from the store.
C16_Witness ==
  /\ Rendered
  /\ Len(req["__cartItems"]) = 2
  /\ Len(res.render.items) = 1
  /\ \A i \in 1..2 : req["__cartItems"][i].productId.id \in IssuedIds
  /\ res.render.total.twice > 0

(***************************************************************************)
(* Properties of the Slug Generator.                                       *)
(***************************************************************************)
\* The characters a-z, 0-9 and the hyphen.
SlugCharacters ==
  {"a", "b", "c", "d", "e", "f", "g", "h", "i", "j", "k", "l", "m", "n", "o",
   "p", "q", "r", "s", "t", "u", "v", "w", "x", "y", "z", "0", "1", "2", "3",
   "4", "5", "6", "7", "8", "9", "-"}

IsSlug(text) ==
  /\ \A i \in 1..Len(text) : text[i] \in SlugCharacters
  /\ text # <<>> => text[1] # "-" /\ text[Len(text)] # "-"
  /\ \A i \in 1..(Len(text) - 1) : ~(text[i] = "-" /\ text[i + 1] = "-")

\* slugify has returned.
Slugified == lastOp.op = "slugify" /\ ret # ReturnedUndefined

\* C17: for every input string, slugify returns a string of the characters
\* a-z, 0-9 and '-' only, with no hyphen first or last and no two hyphens
\* next to each other (the empty string is one).
C17_SlugifyReturnsSlug == Slugified => IsSlug(ret[1])

\* slugify has returned a non-empty slug for a string that starts with a
\* hyphen, ends with a space and has an upper-case letter.
C17_Witness ==
  /\ Slugified
  /\ Len(lastOp.arg) = 3
  /\ lastOp.arg[1] = "-"
  /\ lastOp.arg[2] = "A"
  /\ lastOp.arg[3] = " "
  /\ ret[1] = <<"a">>

(***************************************************************************)
(* Properties of the repositories.                                         *)
(***************************************************************************)
\* The entities of a repository have pairwise distinct ids, each the key
\* it is stored under.
IdsAreKeys(map) ==
  /\ \A i \in 1..Len(map) : map[i].value.id = map[i].key
  /\ \A i, j \in 1..Len(map) : map[i].key = map[j].key => i = j

\* An id that was assigned and is no key of the repository is no key of it
\* after the step.
StaysAbsent(map, mapAfter) ==
  \A i \in 1..Len(mapAfter) :
    mapAfter[i].key \in IssuedIds =>
      \E j \in 1..Len(map) : map[j].key = mapAfter[i].key

\* The update op of an existing entity has left its id as it was.
KeepsId(op, map, mapAfter) ==
  lastOp'.op = op /\ MapHas(map, lastOp'.id) =>
    MapGet(mapAfter, lastOp'.id).id = MapGet(map, lastOp'.id).id

\* C18: in every reachable state the entities of each repository have
\* pairwise distinct ids, each equal to the key it is stored under; no
\* update changes the id of an entity; and an id that a remove has freed
\* is never a key again, so the removed entity stays absent.
C18_IdsAreUniqueAndStable ==
  [][/\ IdsAreKeys(products') /\ IdsAreKeys(categories') /\ IdsAreKeys(pages')
     /\ StaysAbsent(products, products')
     /\ StaysAbsent(categories, categories')
     /\ StaysAbsent(pages, pages')
     /\ KeepsId("updateProduct", products, products')
     /\ KeepsId("updateCategory", categories, categories')
     /\ KeepsId("updatePage", pages, pages')]_vars

\* A product was created after the entity with the first id was removed,
\* and was then updated.
C18_Witness ==
  /\ uuids = 2
  /\ ~MapHas(products, 1) /\ ~MapHas(categories, 1) /\ ~MapHas(pages, 1)
  /\ LastOn("updateProduct", products)
  /\ lastOp.id = 2
  /\ DOMAIN lastOp.arg # {}

\* This step is the update op of an entity of map.
Updates(op, map) == lastOp'.op = op /\ MapHas(map, lastOp'.id)

\* The entries of the repository other than the one of id are as they were,
\* and so are the keys and their order.
OthersKept(map, mapAfter, id) ==
  /\ Len(mapAfter) = Len(map)
  /\ \A i \in 1..Len(map) :
       /\ mapAfter[i].key = map[i].key
       /\ map[i].key # id => mapAfter[i] = map[i]

\* The update has overwritten the fields in named with the values of the
\* partial and kept the other fields, but for the slug.
Merged(before, after, update, named) ==
  /\ DOMAIN after = DOMAIN before
  /\ \A key \in DOMAIN before \ {"slug"} :
       after[key] = IF key \in named THEN update[key] ELSE before[key]

\* C19 as stated: an update of an existing Product, Category or Page
\* overwrites every field the partial names with the supplied value, keeps
\* every field other than slug that the partial omits, and changes no other
\* entity of any repository.
C19_UpdateOverwritesNamedFields ==
  [][/\ Updates("updateProduct", products) =>
          /\ Merged(MapGet(products, lastOp'.id), MapGet(products', lastOp'.id),
                    lastOp'.arg, DOMAIN lastOp'.arg)
          /\ "slug" \in DOMAIN lastOp'.arg =>
               MapGet(products', lastOp'.id).slug = lastOp'.arg.slug
          /\ OthersKept(products, products', lastOp'.id)
          /\ UNCHANGED <<categories, pages>>
     /\ Updates("updateCategory", categories) =>
          /\ Merged(MapGet(categories, lastOp'.id),
                    MapGet(categories', lastOp'.id),
                    lastOp'.arg, DOMAIN lastOp'.arg)
          /\ "slug" \in DOMAIN lastOp'.arg =>
               MapGet(categories', lastOp'.id).slug = lastOp'.arg.slug
          /\ OthersKept(categories, categories', lastOp'.id)
          /\ UNCHANGED <<products, pages>>
     /\ Updates("updatePage", pages) =>
          /\ Merged(MapGet(pages, lastOp'.id), MapGet(pages', lastOp'.id),
                    lastOp'.arg, DOMAIN lastOp'.arg)
          /\ "slug" \in DOMAIN lastOp'.arg =>
               MapGet(pages', lastOp'.id).slug = lastOp'.arg.slug
          /\ OthersKept(pages, pages', lastOp'.id)
          /\ UNCHANGED <<products, categories>>]_vars

\* C19, amended: an update of an existing Product, Category or Page
\* overwrites every field other than slug that the partial names with the
\* supplied value, keeps every field other than slug that the partial
\* omits, and changes no other entity of any repository.
C19_UpdateOverwritesNamedFieldsButSlug ==
  [][/\ Updates("updateProduct", products) =>
          /\ Merged(MapGet(products, lastOp'.id), MapGet(products', lastOp'.id),
                    lastOp'.arg, DOMAIN lastOp'.arg)
          /\ OthersKept(products, products', lastOp'.id)
          /\ UNCHANGED <<categories, pages>>
     /\ Updates("updateCategory", categories) =>
          /\ Merged(MapGet(categories, lastOp'.id),
                    MapGet(categories', lastOp'.id),
                    lastOp'.arg, DOMAIN lastOp'.arg)
          /\ OthersKept(categories, categories', lastOp'.id)
          /\ UNCHANGED <<products, pages>>
     /\ Updates("updatePage", pages) =>
          /\ Merged(MapGet(pages, lastOp'.id), MapGet(pages', lastOp'.id),
                    lastOp'.arg, DOMAIN lastOp'.arg)
          /\ OthersKept(pages, pages', lastOp'.id)
          /\ UNCHANGED <<products, categories>>]_vars

\* A product was renamed while the repository held another product.
C19_Witness ==
  /\ LastOn("updateProduct", products)
  /\ DOMAIN lastOp.arg = {"name"}
  /\ MapGet(products, lastOp.id).name = lastOp.arg.name
  /\ Len(products) = 2
  /\ \E i \in 1..2 : products[i].value.name # lastOp.arg.name

(***************************************************************************)
(* Properties of the settings.                                             *)
(***************************************************************************)
SettingsFields == {"headerHtml", "footerHtml", "paymentGateways"}

\* The step is a call of updateSettings.
UpdatesSettings == lastOp'.op = "updateSettings"

\* After the step, each field of the settings is the one the partial names,
\* or the previous one where the partial names none.
MergedAtTopLevel ==
  /\ DOMAIN settings' = SettingsFields
  /\ \A field \in SettingsFields :
       settings'[field] = IF field \in DOMAIN lastOp'.arg
                          THEN lastOp'.arg[field]
                          ELSE settings[field]

\* C20: updateSettings(partial) merges at the top level only: each of
\* headerHtml, footerHtml and paymentGateways that the partial names is
\* replaced by the supplied value (the gateway list as a whole), each field
\* it omits keeps its value, the call returns the new settings, getSettings
\* returns the current settings and changes none, no other call changes the
\* settings, and neither call changes the products, categories or pages.
C20_UpdateSettingsMergesTopLevel ==
  [][/\ UpdatesSettings =>
          /\ MergedAtTopLevel
          /\ ret' = Returned(settings')
          /\ UNCHANGED <<products, categories, pages>>
     /\ lastOp'.op = "getSettings" =>
          /\ ret' = Returned(settings)
          /\ UNCHANGED <<products, categories, pages, settings>>
     /\ ~UpdatesSettings => settings' = settings]_vars

\* getSettings has returned settings whose gateways were replaced by a
\* one-entry list and whose footer was replaced, the header being the
\* initial one, while a product was in the store.
C20_Witness ==
  /\ lastOp.op = "getSettings"
  /\ ret = Returned(settings)
  /\ Len(products) > 0
  /\ Len(settings.paymentGateways) = 1
  /\ settings.paymentGateways # DefaultSettings.paymentGateways
  /\ settings.headerHtml = DefaultSettings.headerHtml
  /\ settings.footerHtml \in FooterHtmls

(***************************************************************************)
(* Properties of the removal of a category.                                *)
(***************************************************************************)
\* The array without the occurrences of id, the rest in its order.
RECURSIVE Without(_, _)
Without(array, id) ==
  IF array = <<>> THEN <<>>
  ELSE IF Head(array) = id THEN Without(Tail(array), id)
  ELSE <<Head(array)>> \o Without(Tail(array), id)

\* The step is a call of removeCategory.
RemovesCategory == lastOp'.op = "removeCategory"

\* The products are the same ones, each with its fields but for categoryIds,
\* which has lost the id and nothing else.
ProductsKeptWithout(id) ==
  /\ Len(products') = Len(products)
  /\ \A i \in 1..Len(products) :
       LET product == products[i].value
           after == products'[i].value
       IN  /\ products'[i].key = products[i].key
           /\ DOMAIN after = DOMAIN product
           /\ \A field \in DOMAIN product \ {"categoryIds"} :
                after[field] = product[field]
           /\ after.categoryIds = Without(product.categoryIds, id)

\* The categories are the ones of before but for the removed one, each the
\* same record.
CategoriesKeptBut(id) ==
  /\ MapKeys(categories') = MapKeys(categories) \ {id}
  /\ Len(categories') = Cardinality(MapKeys(categories'))
  /\ \A key \in MapKeys(categories') :
       MapGet(categories', key) = MapGet(categories, key)

\* C21: removeCategory(c) changes nothing except removing category c and
\* removing c from the categoryIds of the products: the products are the
\* same ones, every field of a product other than categoryIds is unchanged,
\* the other ids of each categoryIds keep their order, every other category
\* is the same record (a child keeps its parentId), and the pages and the
\* settings are unchanged.
C21_RemoveCategoryChangesNothingElse ==
  [][RemovesCategory =>
       /\ ProductsKeptWithout(lastOp'.id)
       /\ CategoriesKeptBut(lastOp'.id)
       /\ UNCHANGED <<pages, settings>>]_vars

\* removeCategory has removed the category that was created first, and the
\* product created after it, which listed the category with two other ids,
\* lists these two in their order.  Products are created with no category
\* id or with three, so that a list of two has lost one.
C21_Witness ==
  /\ lastOp.op = "removeCategory"
  /\ lastOp.id = 1
  /\ ~MapHas(categories, 1)
  /\ MapHas(products, 2)
  /\ MapGet(products, 2).categoryIds = <<ForeignId, 2>>
  /\ MapGet(products, 2).name = CascadeName

(***************************************************************************)
(* Properties of the lookup of a page by its slug.                         *)
(***************************************************************************)
\* The ids of the stored pages that have the slug.
PagesWithSlug(map, slug) ==
  {key \in MapKeys(map) : MapGet(map, key).slug = slug}

\* The id that randomUUID returned first among the ids: the k-th call
\* returns k.
EarliestCreated(ids) == CHOOSE id \in ids : \A other \in ids : id <= other

\* The order of the keys of a map.
KeyOrder(map) == [i \in 1..Len(map) |-> map[i].key]

\* C22: getPageBySlug(s) returns absent when no stored page has slug s and
\* otherwise the page created earliest among the stored pages of slug s; an
\* update of a page leaves the order of the pages as it was; createPage
\* stores and returns the page it builds whether or not a stored page has
\* its slug already.
C22_LookupReturnsEarliestMatch ==
  [][/\ lastOp'.op = "getPageBySlug" =>
          LET found == PagesWithSlug(pages', lastOp'.arg.slug)
          IN  /\ found = {} => ret' = ReturnedUndefined
              /\ found # {} =>
                   ret' = Returned(MapGet(pages', EarliestCreated(found)))
     /\ lastOp'.op = "updatePage" => KeyOrder(pages') = KeyOrder(pages)
     /\ lastOp'.op = "createPage" =>
          /\ KeyOrder(pages') = Append(KeyOrder(pages), lastOp'.id)
          /\ ret' = Returned(MapGet(pages', lastOp'.id))]_vars

\* Two pages of one slug are stored, each updated since its creation (a
\* page of empty title and that slug is created by no call), the second
\* one while both were stored, and the lookup of the slug has returned the
\* one created first.
C22_Witness ==
  /\ lastOp.op = "getPageBySlug"
  /\ lastOp.arg.slug = slugify(CascadeName)
  /\ KeyOrder(pages) = <<1, 2>>
  /\ \A id \in {1, 2} :
       /\ MapGet(pages, id).slug = lastOp.arg.slug
       /\ MapGet(pages, id).title = EmptyStr
  /\ ret = Returned(MapGet(pages, 1))

(***************************************************************************)
(* Properties of the items of a decoded cart.                              *)
(***************************************************************************)
\* A finite number that is an integer greater than 0.
IsPositiveInteger(number) ==
  /\ number.t = "number"
  /\ number.twice > 0
  /\ number.twice % 2 = 0

\* C23: every item of every decoded cart has a productId that is a
\* non-empty string and a quantity that is a positive integer, whatever
\* the cookie of the client, quantities given as fractional numbers or as
\* numeric strings included.
C23_DecodedItemsAreValid ==
  phase = "parsed" /\ "__cartItems" \in DOMAIN req =>
    \A i \in 1..Len(req["__cartItems"]) :
      LET item == req["__cartItems"][i]
      IN  /\ IsString(item.productId)
          /\ item.productId # Str(EmptyStr)
          /\ IsPositiveInteger(item.quantity)

(***************************************************************************)
(* Properties of the cart and the catalog together.                        *)
(***************************************************************************)
\* The step belongs to a request to a cart route: it starts one, handles
\* it or ends it.
IsCartStep == phase # "idle" \/ phase' # "idle"

\* The cart that the cookie of the request stands for, whatever else the
\* request and the server hold: the valid elements of its array, and no
\* item without a cart cookie, without an array in it, or with an element
\* that has no properties.
CartOfCookie(request) ==
  IF /\ HoldsArray(request)
     /\ \A i \in 1..Len(CookieArray(request)) :
          ~ThrowsOnAccess(CookieArray(request)[i])
  THEN ValidItems(CookieArray(request))
  ELSE <<>>

\* C24: the cart operations never touch the catalog and the catalog never
\* stores cart state: receiving a request, decoding its cart, viewing the
\* cart, adding to it and answering leave products, categories, pages and
\* settings unchanged, and the cart that the middleware decodes for a
\* request is the one of that request's cookie, whatever the carts of the
\* earlier requests and the products of the store.
C24_CartAndCatalogAreSeparate ==
  [][/\ IsCartStep => UNCHANGED <<products, categories, pages, settings>>
     /\ phase = "received" /\ phase' = "parsed" =>
          /\ ~uncaught'
          /\ req'["__cartItems"] = CartOfCookie(req)]_vars

\* The middleware has decoded a cart of two items for a request, one of
\* them of a product that the store does not hold, while the store holds a
\* product.
C24_Witness ==
  /\ phase = "parsed"
  /\ Len(products) > 0
  /\ "__cartItems" \in DOMAIN req
  /\ Len(req["__cartItems"]) = 2
  /\ \E i \in 1..Len(req["__cartItems"]) :
       ~MapHas(products, req["__cartItems"][i].productId.id)

(***************************************************************************)
(* Properties of a session of adds.                                        *)
(***************************************************************************)
\* The cart of the browser: what the server decodes from its cookie.
CartOfJar == IF jar = <<>> THEN <<>> ELSE DecodedFrom(jar[1])

\* The sum of the quantities of the accepted adds of the product.
RECURSIVE SumAccepted(_, _)
SumAccepted(adds, productId) ==
  IF adds = <<>> THEN Num(0)
  ELSE LET rest == SumAccepted(Tail(adds), productId)
       IN  IF Head(adds).productId = productId
           THEN Plus(Head(adds).quantity, rest)
           ELSE rest

AcceptedProducts == {accepted[i].productId : i \in 1..Len(accepted)}

\* C25: from an empty cart, after any sequence of add-to-cart requests that
\* each carry the cookie the previous one wrote, the cart has at most one
\* entry for a productId, an entry for each product of an accepted add and
\* for no other, and the quantity of each entry is the sum of the
\* normalized quantities of the accepted adds of its product.
C25_CartSumsAcceptedAdds ==
  phase = "idle" =>
    LET cart == CartOfJar
    IN  /\ \A i, j \in 1..Len(cart) :
             cart[i].productId = cart[j].productId => i = j
        /\ {cart[i].productId : i \in 1..Len(cart)} = AcceptedProducts
        /\ \A i \in 1..Len(cart) :
             cart[i].quantity = SumAccepted(accepted, cart[i].productId)

=============================================================================
